---- MODULE Spec2Model ----
(***************************************************************************)
(* Model of the graph workflow engine (app/engine.py, app/registry.py,     *)
(* app/storage.py, the graph/run endpoints and the startup hook of         *)
(* app/main.py, the example tools and graph of app/workflows.py).          *)
(*                                                                         *)
(* Python values are modelled as follows.                                  *)
(*   None            the string "None" (NoneV)                             *)
(*   int i           [t |-> "int", v |-> i]                                *)
(*   list object     [t |-> "list", v |-> ref]; its content is heap[ref]   *)
(*   list made by a tool of app/workflows.py                               *)
(*                   [t |-> "newlist", items |-> content]: no tool writes  *)
(*                   to such a list, so it is modelled by its content      *)
(*   str             [t |-> "str", v |-> pieces], the text being the       *)
(*                   concatenation of the pieces                           *)
(*   dict            a function from keys (strings) to values              *)
(*   condition str   the Python source text of the guard, as a string      *)
(* The engine mutates the RunState object it stored in `runs`, so the      *)
(* store entry and the engine's run_state are one record here.             *)
(* The only suspension point of run_graph_once is the awaited tool call.   *)
(* A tool registered as a plain function is called without suspension, so  *)
(* one iteration of the for loop is one action.  A tool registered as a    *)
(* coroutine function suspends the run inside the call: the iteration is   *)
(* one action up to the suspension and one action from the resumption on.  *)
(***************************************************************************)
EXTENDS Integers, Sequences, FiniteSets, TLC

VARIABLES
    _tools,   \* registry.tool_registry._tools: the names a tool is registered under
    graphs,   \* storage.graphs: graph id -> GraphDefinition
    runs,     \* storage.runs: run id -> RunState
    frames,   \* locals of each run_graph_once call: graph, current_node_id, step, pc,
              \* and the outcome the suspended tool call will deliver
    heap,     \* content of the list objects reachable from run states
    calls,    \* per run, the tool invocations made through the registry
    last_call, \* the most recent call of run_graph_once or run_graph and the error it raised
              \* before a run was created ("none" when it created one)
    probe     \* input and result of a direct call of _find_next_edge

vars == <<_tools, graphs, runs, frames, heap, calls, last_call, probe>>

----------------------------------------------------------------------------
(* Bounds of the model *)

\* largest max_steps passed to run_graph_once directly
MaxSteps == 5
\* longest linear graph N1 -> ... -> Nn created
MaxLinear == 3
\* longest edge list given to a direct call of _find_next_edge
MaxEdges == 3

\* default of the max_steps parameter, used by the /graph/run endpoint
DefaultMaxSteps == 100

----------------------------------------------------------------------------
(* Values *)

NoneV == "None"
IntV(i) == [t |-> "int", v |-> i]
ListV(r) == [t |-> "list", v |-> r]
NewListV(items) == [t |-> "newlist", items |-> items]
StrV(pieces) == [t |-> "str", v |-> pieces]
EmptyDict == [k \in {} |-> IntV(0)]

Refs == {"L1"}

\* mutant: the merge keeps the value of a key the state already has
DictUpdateKeepsOld(d, other) ==
    [k \in (DOMAIN d) \cup (DOMAIN other) |->
        IF k \in DOMAIN d THEN d[k] ELSE other[k]]

\* dict.update(other): returned keys replace existing keys
DictUpdate(d, other) ==
    [k \in (DOMAIN d) \cup (DOMAIN other) |->
        IF k \in DOMAIN other THEN other[k] ELSE d[k]]

\* dict.copy(): a new dict with the same items (values are shared)
DictCopy(d) == [k \in DOMAIN d |-> d[k]]

----------------------------------------------------------------------------
(* Status values of models.RunStatus *)

PENDING == "pending"
RUNNING == "running"
COMPLETED == "completed"
FAILED == "failed"

RunLogEntry(node_id, state_snapshot, message) ==
    [node_id |-> node_id, state_snapshot |-> state_snapshot, message |-> message]

NodeDefinition(id, tool_name) == [id |-> id, tool_name |-> tool_name]

EdgeDefinition(source, target, condition) ==
    [source |-> source, target |-> target, condition |-> condition]

GraphDefinition(id, nodes, edges, start_node_id) ==
    [id |-> id, nodes |-> nodes, edges |-> edges, start_node_id |-> start_node_id]

----------------------------------------------------------------------------
(* Tools: callables registered under a name.  A call receives the run's    *)
(* state dict itself (registry.run_tool passes it on unchanged), so what a *)
(* tool writes into its argument is written into the run state.            *)
(* The outcome of a call: the exception raised ("none" when it returned),  *)
(* whether the returned value is a dict, the returned dict, and the        *)
(* argument dict and the heap as the call left them.                       *)

ToolOutcome(raised, isdict, result, state, h) ==
    [raised |-> raised, isdict |-> isdict, result |-> result, state |-> state, heap |-> h]

\* def inc(state): return {"n": state.get("n", 0) + 1}
tool_inc(state, h) ==
    IF "n" \notin DOMAIN state
    THEN ToolOutcome("none", TRUE, [n |-> IntV(1)], state, h)
    ELSE IF state["n"].t = "int"
         THEN ToolOutcome("none", TRUE, [n |-> IntV(state["n"].v + 1)], state, h)
         ELSE ToolOutcome("TypeError", FALSE, EmptyDict, state, h)

\* def noop(state): return {}
tool_noop(state, h) == ToolOutcome("none", TRUE, EmptyDict, state, h)

\* def set_x(state): return {"x": 1}
tool_set_x(state, h) == ToolOutcome("none", TRUE, [x |-> IntV(1)], state, h)

\* def bad(state): return None
tool_bad(state, h) == ToolOutcome("none", FALSE, EmptyDict, state, h)

\* def boom(state): raise RuntimeError("boom")
tool_boom(state, h) == ToolOutcome("RuntimeError", FALSE, EmptyDict, state, h)

\* def poke(state): state["x"] = 9; return {}
tool_poke(state, h) ==
    ToolOutcome("none", TRUE, EmptyDict, DictUpdate(state, [x |-> IntV(9)]), h)

\* def append_item(state): state["items"].append(1); return {}
tool_append_item(state, h) ==
    IF "items" \notin DOMAIN state
    THEN ToolOutcome("KeyError", FALSE, EmptyDict, state, h)
    ELSE IF state["items"].t = "list"
         THEN ToolOutcome("none", TRUE, EmptyDict, state,
                  [h EXCEPT ![state["items"].v] = Append(@, 1)])
         ELSE ToolOutcome("AttributeError", FALSE, EmptyDict, state, h)

\* the names the tools above are registered under
TestTools == {"inc", "noop", "set_x", "bad", "boom", "poke", "append_item"}

(* The tools of app/workflows.py.  They read the text under "code"; a text *)
(* is a sequence of the pieces below, none of which starts or ends inside  *)
(* an occurrence of a pattern the tools look for, so an occurrence in the  *)
(* text is an occurrence in a piece.                                       *)

Pieces == {"def f(", "def g(", "if ", "for ", "while ", "\t", "print(", "logging", "pass", " "}

\* state.get(key, default)
DictGet(state, key, default) == IF key \in DOMAIN state THEN state[key] ELSE default

\* state.get("code", "")
CodeValue(state) == DictGet(state, "code", StrV(<<>>))

\* the pieces of the text state.get("code", "")
CodeOf(state) == CodeValue(state).v

\* code.count(piece)
Count(code, piece) == Cardinality({i \in 1..Len(code) : code[i] = piece})

\* piece in code
Contains(code, piece) == \E i \in 1..Len(code) : code[i] = piece

\* code.endswith(" ")
EndsWithSpace(code) == code # <<>> /\ code[Len(code)] \in {"if ", "for ", "while ", " "}

\* the group (\w+) of a match of def\s+(\w+)\s*\( in a piece
DefName(piece) == CASE piece = "def f(" -> "f" [] piece = "def g(" -> "g"

\* re.findall(r"def\s+(\w+)\s*\(", code)
FindDefs(code) ==
    LET defs == SelectSeq(code, LAMBDA piece : piece \in {"def f(", "def g("})
    IN [i \in 1..Len(defs) |-> DefName(defs[i])]

\* the list built by appending items[i] for the i whose test cond[i] holds
AppendIf(cond, items) ==
    LET idx == SelectSeq([i \in 1..Len(items) |-> i], LAMBDA i : cond[i])
    IN [j \in 1..Len(idx) |-> items[idx[j]]]

\* workflows.tool_extract_functions; re.findall raises TypeError for a value that is
\* no text
tool_extract_functions(state, h) ==
    IF CodeValue(state).t # "str"
    THEN ToolOutcome("TypeError", FALSE, EmptyDict, state, h)
    ELSE LET functions == FindDefs(CodeOf(state))
         IN ToolOutcome("none", TRUE,
                [functions |-> NewListV(functions),
                 function_count |-> IntV(Len(functions))], state, h)

\* workflows.tool_check_complexity; a list has count too, of the items equal to the
\* argument (none in a list of numbers); any other value that is no text has not:
\* AttributeError
tool_check_complexity(state, h) ==
    LET value == CodeValue(state) IN
    IF value.t \notin {"str", "list", "newlist"}
    THEN ToolOutcome("AttributeError", FALSE, EmptyDict, state, h)
    ELSE LET code == CASE value.t = "str" -> value.v
                        [] value.t = "newlist" -> value.items
                        [] value.t = "list" -> <<>>
             complexity ==
                 Count(code, "if ") + Count(code, "for ") + Count(code, "while ")
         IN ToolOutcome("none", TRUE, [complexity_score |-> IntV(complexity)], state, h)

\* workflows.tool_detect_basic_issues; for a value that is no text, "\t" in code
\* raises TypeError unless the value is a list, and then code.endswith raises
\* AttributeError
tool_detect_basic_issues(state, h) ==
    LET value == CodeValue(state) IN
    IF value.t \in {"list", "newlist"}
    THEN ToolOutcome("AttributeError", FALSE, EmptyDict, state, h)
    ELSE IF value.t # "str"
    THEN ToolOutcome("TypeError", FALSE, EmptyDict, state, h)
    ELSE LET code == value.v
             issues == AppendIf(<<Contains(code, "\t"),
                                  EndsWithSpace(code),
                                  Contains(code, "print(") /\ ~Contains(code, "logging")>>,
                                <<"Contains tab characters; prefer spaces.",
                                  "File ends with trailing whitespace.",
                                  "Uses print statements; consider using logging.">>)
         IN ToolOutcome("none", TRUE,
                [issues |-> NewListV(issues), issue_count |-> IntV(Len(issues))],
                state, h)

\* max(0, i)
Max0(i) == IF i < 0 THEN 0 ELSE i

\* workflows.tool_suggest_improvements; complexity > 10 and issue_count > 0 raise
\* TypeError for a value that is no number
tool_suggest_improvements(state, h) ==
    LET complexity == DictGet(state, "complexity_score", IntV(0))
        issue_count == DictGet(state, "issue_count", IntV(0))
        function_count == DictGet(state, "function_count", IntV(0))
    IN IF complexity.t # "int" \/ issue_count.t # "int"
       THEN ToolOutcome("TypeError", FALSE, EmptyDict, state, h)
       ELSE LET suggestions ==
                    AppendIf(<<complexity.v > 10, issue_count.v > 0,
                               function_count = IntV(0)>>,
                             <<"Break complex logic into smaller functions.",
                               "Address the reported style/formatting issues.",
                               "Consider structuring code into separate functions.">>)
                quality_score == Max0(100 - complexity.v * 5 - issue_count.v * 10)
            IN ToolOutcome("none", TRUE,
                   [suggestions |-> NewListV(suggestions),
                    quality_score |-> IntV(quality_score)], state, h)

\* workflows.register_default_tools: the names registered
DefaultTools ==
    {"extract_functions", "check_complexity", "detect_basic_issues", "suggest_improvements"}

\* func(state) for the callable registered under `name`
ToolFunc(name, state, h) ==
    CASE name = "inc" -> tool_inc(state, h)
      [] name = "noop" -> tool_noop(state, h)
      [] name = "set_x" -> tool_set_x(state, h)
      [] name = "bad" -> tool_bad(state, h)
      [] name = "boom" -> tool_boom(state, h)
      [] name = "poke" -> tool_poke(state, h)
      [] name = "append_item" -> tool_append_item(state, h)
      [] name = "extract_functions" -> tool_extract_functions(state, h)
      [] name = "check_complexity" -> tool_check_complexity(state, h)
      [] name = "detect_basic_issues" -> tool_detect_basic_issues(state, h)
      [] name = "suggest_improvements" -> tool_suggest_improvements(state, h)

\* ToolRegistry.run_tool with the names in `tools` registered: KeyError for an
\* unregistered name (from get), the tool's own exception, ValueError for a result
\* that is not a dict
run_tool(tools, name, state, h) ==
    IF name \notin tools
    THEN ToolOutcome("KeyError", FALSE, EmptyDict, state, h)
    ELSE LET out == ToolFunc(name, state, h) IN
         IF out.raised # "none" THEN out
         ELSE IF ~out.isdict
              THEN ToolOutcome("ValueError", FALSE, EmptyDict, out.state, out.heap)
              ELSE out

\* whether run_tool reaches the call func(state)
Invokes(name) == name \in _tools

\* record of one call func(state): the tool, the argument dict and the heap as
\* the call found them, the returned dict, the argument dict and the heap as the
\* call left them
Invocation(name, state, h, out) ==
    [tool |-> name, state |-> state, heap |-> h, result |-> out.result,
     after |-> out.state, heap_after |-> out.heap]

----------------------------------------------------------------------------
(* Guards: eval(edge.condition, {}, {"state": state}) for the condition    *)
(* texts used in the graphs of this model.  The result is "true" or        *)
(* "false" (bool of the value) or "error" (eval raised an Exception).      *)
(* A guard reads the state dict and the objects it holds: h is the content *)
(* of the list objects when the guard is evaluated.                        *)

\* a < b, a >= b on Python values: TypeError unless both are ints
Compare(a, op, b) ==
    IF a.t = "int" /\ b.t = "int"
    THEN IF (op = "<" /\ a.v < b.v) \/ (op = ">=" /\ a.v >= b.v)
         THEN "true" ELSE "false"
    ELSE "error"

\* state[key] op c: KeyError when the key is absent
CompareKey(state, key, op, c) ==
    IF key \in DOMAIN state THEN Compare(state[key], op, IntV(c)) ELSE "error"

\* state.get(key, default) op c
CompareGet(state, key, default, op, c) ==
    Compare(IF key \in DOMAIN state THEN state[key] ELSE IntV(default), op, IntV(c))

\* len(piece) of a piece of a text
PieceLen(piece) ==
    CASE piece \in {"\t", " "} -> 1
      [] piece = "if " -> 3
      [] piece \in {"for ", "pass"} -> 4
      [] piece \in {"def f(", "def g(", "while ", "print("} -> 6
      [] piece = "logging" -> 7

RECURSIVE TextLen(_)
TextLen(pieces) == IF pieces = <<>> THEN 0 ELSE PieceLen(Head(pieces)) + TextLen(Tail(pieces))

\* len(state[key]) < c: KeyError when the key is absent, TypeError for a number
LenBelow(state, key, c, h) ==
    IF key \notin DOMAIN state THEN "error"
    ELSE LET value == state[key] IN
         CASE value.t = "list" -> IF Len(h[value.v]) < c THEN "true" ELSE "false"
           [] value.t = "newlist" -> IF Len(value.items) < c THEN "true" ELSE "false"
           [] value.t = "str" -> IF TextLen(value.v) < c THEN "true" ELSE "false"
           [] OTHER -> "error"

Eval(condition, state, h) ==
    CASE condition = "True" -> "true"
      [] condition = "False" -> "false"
      [] condition = "1/0" -> "error"
      [] condition = "state['n'] >= 0" -> CompareKey(state, "n", ">=", 0)
      [] condition = "state['n'] < 3" -> CompareKey(state, "n", "<", 3)
      [] condition = "state['n'] < 2" -> CompareKey(state, "n", "<", 2)
      [] condition = "state['missing'] < 1" -> CompareKey(state, "missing", "<", 1)
      [] condition = "state['items'] < 1" -> CompareKey(state, "items", "<", 1)
      [] condition = "state.get('n', 0) < 2" -> CompareGet(state, "n", 0, "<", 2)
      [] condition = "len(state['items']) < 2" -> LenBelow(state, "items", 2, h)
      [] condition = "state.get('quality_score', 0) < state.get('threshold', 80)" ->
            Compare(DictGet(state, "quality_score", IntV(0)), "<",
                    DictGet(state, "threshold", IntV(80)))
      [] OTHER -> "error"

\* the result None of _find_next_edge
NoEdge == [none |-> TRUE]

\* mutant: a guard whose evaluation raises counts as passing
GuardPassesOnError(condition, state, h) == Eval(condition, state, h) # "false"

\* try: bool(eval(condition, ...)) except Exception: continue
GuardPasses(condition, state, h) == Eval(condition, state, h) = "true"

\* mutant: the test `edge.condition is None` is missing, so eval(None) raises
\* and an unguarded edge is skipped
RECURSIVE ScanEdgesNoDefault(_, _, _, _)
ScanEdgesNoDefault(candidates, i, state, h) ==
    IF i > Len(candidates) THEN NoEdge
    ELSE IF candidates[i].condition # NoneV /\ GuardPasses(candidates[i].condition, state, h)
    THEN candidates[i]
    ELSE ScanEdgesNoDefault(candidates, i + 1, state, h)

\* mutant: edges with a true guard are preferred to an earlier unguarded edge
ScanEdgesGuardedFirst(candidates, i, state, h) ==
    LET guarded == {j \in i..Len(candidates) :
                       /\ candidates[j].condition # NoneV
                       /\ GuardPasses(candidates[j].condition, state, h)}
        default == {j \in i..Len(candidates) : candidates[j].condition = NoneV}
    IN IF guarded # {} THEN candidates[CHOOSE j \in guarded : \A k \in guarded : j <= k]
       ELSE IF default # {} THEN candidates[CHOOSE j \in default : \A k \in default : j <= k]
       ELSE NoEdge

\* the for loop of _find_next_edge over candidates[i..]
RECURSIVE ScanEdges(_, _, _, _)
ScanEdges(candidates, i, state, h) ==
    IF i > Len(candidates) THEN NoEdge
    ELSE IF candidates[i].condition = NoneV THEN candidates[i]
    ELSE IF GuardPasses(candidates[i].condition, state, h) THEN candidates[i]
    ELSE ScanEdges(candidates, i + 1, state, h)

\* candidates = [e for e in graph.edges if e.source == current_node_id]
Outgoing(graph, current_node_id) ==
    SelectSeq(graph.edges, LAMBDA e : e.source = current_node_id)

\* _find_next_edge(graph, current_node_id, state), with the list objects holding h
_find_next_edge(graph, current_node_id, state, h) ==
    LET candidates == Outgoing(graph, current_node_id) IN
    IF candidates = <<>> THEN NoEdge ELSE ScanEdges(candidates, 1, state, h)

----------------------------------------------------------------------------
(* Inputs: the graphs given to create_graph, the initial states and the    *)
(* max_steps values given to run_graph_once.                               *)

NodeName(i) == "N" \o ToString(i)

\* N1 -> N2 -> ... -> Nn, no guards
LinearRequest(n) ==
    [nodes |-> [i \in 1..n |-> NodeDefinition(NodeName(i), "inc")],
     edges |-> [i \in 1..(n - 1) |-> EdgeDefinition(NodeName(i), NodeName(i + 1), NoneV)],
     start_node_id |-> NodeName(1)]

Request(nodes, edges, start_node_id) ==
    [nodes |-> nodes, edges |-> edges, start_node_id |-> start_node_id]

\* one node looping on itself under a guard on the counter its tool increments
SelfLoopCounter ==
    Request(<<NodeDefinition("A", "inc")>>,
            <<EdgeDefinition("A", "A", "state['n'] >= 0")>>, "A")

\* one node looping on itself without a guard
SelfLoopPlain ==
    Request(<<NodeDefinition("A", "noop")>>, <<EdgeDefinition("A", "A", NoneV)>>, "A")

\* a loop that is left once the counter reaches 3
LoopWithExit ==
    Request(<<NodeDefinition("A", "inc")>>,
            <<EdgeDefinition("A", "A", "state['n'] < 3")>>, "A")

\* A -> B -> A while n < 2, then A -> C
Branching ==
    Request(<<NodeDefinition("A", "inc"), NodeDefinition("B", "noop"),
              NodeDefinition("C", "set_x")>>,
            <<EdgeDefinition("A", "B", "state['n'] < 2"), EdgeDefinition("A", "C", NoneV),
              EdgeDefinition("B", "A", NoneV)>>, "A")

\* A -> B -> A forever
CycleTwo ==
    Request(<<NodeDefinition("A", "inc"), NodeDefinition("B", "noop")>>,
            <<EdgeDefinition("A", "B", NoneV), EdgeDefinition("B", "A", "True")>>, "A")

\* the start node is no node of the graph
MissingStart == Request(<<NodeDefinition("A", "inc")>>, <<>>, "Z")

\* an edge leads to a node that is no node of the graph
DanglingEdge ==
    Request(<<NodeDefinition("A", "inc")>>, <<EdgeDefinition("A", "Z", NoneV)>>, "A")

\* the tool of the second node is not registered
UnregisteredTool ==
    Request(<<NodeDefinition("A", "inc"), NodeDefinition("B", "ghost")>>,
            <<EdgeDefinition("A", "B", NoneV)>>, "A")

\* the tool of the second node returns None
BadTool ==
    Request(<<NodeDefinition("A", "inc"), NodeDefinition("B", "bad")>>,
            <<EdgeDefinition("A", "B", NoneV)>>, "A")

\* the tool of the start node raises
BoomTool == Request(<<NodeDefinition("A", "boom")>>, <<>>, "A")

\* guards that raise (ZeroDivisionError, KeyError, TypeError) before one that holds
ErrGuards ==
    Request(<<NodeDefinition("A", "inc"), NodeDefinition("B", "noop"),
              NodeDefinition("C", "noop")>>,
            <<EdgeDefinition("A", "B", "1/0"),
              EdgeDefinition("A", "B", "state['missing'] < 1"),
              EdgeDefinition("A", "C", "state['items'] < 1"),
              EdgeDefinition("A", "A", "state['n'] < 2")>>, "A")

\* one node whose tool returns {"x": 1}
MergeExample == Request(<<NodeDefinition("A", "set_x")>>, <<>>, "A")

\* one node whose tool appends to the list under "items"
Appender == Request(<<NodeDefinition("A", "append_item")>>, <<>>, "A")

\* a loop on a node that appends to the list under "items", left once the list has
\* two items
ListLoop ==
    Request(<<NodeDefinition("A", "append_item"), NodeDefinition("C", "noop")>>,
            <<EdgeDefinition("A", "A", "len(state['items']) < 2"),
              EdgeDefinition("A", "C", NoneV)>>, "A")

\* tools that write into the state dict they are given
Mutators ==
    Request(<<NodeDefinition("A", "poke"), NodeDefinition("B", "append_item"),
              NodeDefinition("C", "inc")>>,
            <<EdgeDefinition("A", "B", NoneV), EdgeDefinition("B", "C", NoneV),
              EdgeDefinition("C", "B", "state.get('n', 0) < 2")>>, "A")

\* workflows.create_example_code_review_graph: the graph it stores
CodeReviewGraph ==
    GraphDefinition("code_review_graph",
        <<NodeDefinition("extract", "extract_functions"),
          NodeDefinition("complexity", "check_complexity"),
          NodeDefinition("issues", "detect_basic_issues"),
          NodeDefinition("suggest", "suggest_improvements")>>,
        <<EdgeDefinition("extract", "complexity", NoneV),
          EdgeDefinition("complexity", "issues", NoneV),
          EdgeDefinition("issues", "suggest", NoneV),
          EdgeDefinition("suggest", "complexity",
              "state.get('quality_score', 0) < state.get('threshold', 80)")>>,
        "extract")

\* texts given under "code": one with nested branches, a print call and a trailing
\* blank, one with eleven branches, a tab and logging
CodeNested == <<"def f(", "if ", "if ", "for ", "while ", "print(", " ">>
CodeDeep ==
    <<"def f(", "def g(", "\t", "logging", "print(">> \o [i \in 1..11 |-> "if "]

Requests ==
    {LinearRequest(n) : n \in 1..MaxLinear} \cup
    {SelfLoopCounter, SelfLoopPlain, LoopWithExit, Branching, CycleTwo, MissingStart,
     DanglingEdge, UnregisteredTool, BadTool, BoomTool, ErrGuards, MergeExample, Appender,
     ListLoop, Mutators}

\* initial states given to the graphs made by create_graph
InitialStates ==
    {EmptyDict,
     [n |-> IntV(0)],
     [x |-> IntV(0), y |-> IntV(2)],
     [n |-> IntV(0), x |-> IntV(0), items |-> ListV("L1")],
     [n |-> ListV("L1")]}

\* initial states given to the example graph
CodeStates ==
    {EmptyDict,
     [code |-> StrV(CodeNested), threshold |-> IntV(80)],
     [code |-> StrV(CodeNested), threshold |-> IntV(50)],
     [code |-> StrV(CodeDeep)]}

\* the initial states given to the graph stored under graph_id
StatesFor(graph_id) == IF graph_id = "code_review_graph" THEN CodeStates ELSE InitialStates

\* the initial states given to the /graph/run endpoint for the graph stored under
\* graph_id
EndpointStatesFor(graph_id) ==
    IF graph_id = "code_review_graph"
    THEN {[code |-> StrV(CodeNested), threshold |-> IntV(50)]}
    ELSE {[n |-> ListV("L1")]}

\* max_steps of a direct call of run_graph_once
StepLimits == (0 - 1)..MaxSteps

\* uuid4() of create_graph and of run_graph_once: an id not in use
GraphIds == {"g1"}
RunIds == {"r1"}
\* graph ids a caller may ask for
AskedGraphIds == GraphIds \cup {"code_review_graph", "unknown"}

----------------------------------------------------------------------------
(* State *)

RunState(run_id, graph_id, status, current_node_id, state, logs) ==
    [run_id |-> run_id, graph_id |-> graph_id, status |-> status,
     current_node_id |-> current_node_id, state |-> state, logs |-> logs]

\* nothing is awaited
NoPending == [none |-> TRUE]

\* the awaited call of a coroutine tool: the exception it will raise ("none" when it
\* will return) and the record of the call
Pending(raised, call) == [none |-> FALSE, raised |-> raised, call |-> call]

\* locals of a run_graph_once call; pc is "loop" (in the for loop, between two
\* iterations), "tool" (suspended in the awaited tool call), "returned" (run_state
\* was returned) or "raised" (an exception left the call); initial_heap and tools
\* are the content of the list objects of initial_state and the registered tools of
\* the graph when the call was made
Frame(graph, initial_state, initial_heap, tools, current_node_id, step, max_steps, pc, raised) ==
    [graph |-> graph, initial_state |-> initial_state, initial_heap |-> initial_heap,
     tools |-> tools, current_node_id |-> current_node_id, step |-> step,
     max_steps |-> max_steps, pc |-> pc, raised |-> raised, pending |-> NoPending]

NoProbe == [called |-> FALSE]

Call(op, graph_id, error) == [op |-> op, graph_id |-> graph_id, error |-> error]
NoCall == Call("none", "none", "none")

\* every list object is empty
EmptyHeap == [r \in Refs |-> <<>>]

Init ==
    /\ _tools = TestTools
    /\ graphs = <<>>
    /\ runs = <<>>
    /\ frames = <<>>
    /\ heap = EmptyHeap
    /\ calls = <<>>
    /\ last_call = NoCall
    /\ probe = NoProbe

----------------------------------------------------------------------------
(* Operations *)

\* the tools of the nodes of a graph that are registered
RegisteredOf(graph) ==
    {graph.nodes[i].tool_name : i \in 1..Len(graph.nodes)} \cap _tools

\* workflows.register_default_tools
register_default_tools ==
    /\ _tools' = _tools \cup DefaultTools
    /\ UNCHANGED <<graphs, runs, frames, heap, calls, last_call, probe>>

\* graphs[graph.id] = graph: a new entry, or the entry of that id replaced
StoreGraph(graph) ==
    [id \in (DOMAIN graphs) \cup {graph.id} |-> IF id = graph.id THEN graph ELSE graphs[id]]

\* workflows.create_example_code_review_graph
create_example_code_review_graph ==
    /\ graphs' = StoreGraph(CodeReviewGraph)
    /\ UNCHANGED <<_tools, runs, frames, heap, calls, last_call, probe>>

\* main.on_startup: register_default_tools(); create_example_code_review_graph()
on_startup ==
    /\ _tools' = _tools \cup DefaultTools
    /\ graphs' = StoreGraph(CodeReviewGraph)
    /\ UNCHANGED <<runs, frames, heap, calls, last_call, probe>>

\* main.create_graph
create_graph(graph_id, req) ==
    /\ graph_id \notin DOMAIN graphs
    /\ graphs' = graphs @@
          (graph_id :> GraphDefinition(graph_id, req.nodes, req.edges, req.start_node_id))
    /\ UNCHANGED <<_tools, runs, frames, heap, calls, last_call, probe>>

\* mutant: state=initial_state without the copy, so a run works on the caller's dict
\* and a later run given the same dict starts from what the earlier one made of it
run_graph_once_without_copy(run_id, graph_id, initial_state, max_steps) ==
    /\ run_id \notin DOMAIN runs
    /\ graph_id \in DOMAIN graphs
    /\ LET earlier == {r \in DOMAIN frames : frames[r].initial_state = initial_state}
           state == IF earlier = {} THEN initial_state
                    ELSE runs[CHOOSE r \in earlier : TRUE].state
       IN runs' = runs @@
             (run_id :> RunState(run_id, graph_id, RUNNING, graphs[graph_id].start_node_id,
                                 state, <<>>))
    /\ frames' = frames @@
          (run_id :> Frame(graphs[graph_id], initial_state, heap,
                           RegisteredOf(graphs[graph_id]),
                           graphs[graph_id].start_node_id, 0, max_steps, "loop", "none"))
    /\ calls' = calls @@ (run_id :> <<>>)
    /\ last_call' = Call("run_graph_once", graph_id, "none")
    /\ UNCHANGED <<_tools, graphs, heap, probe>>

\* run_graph_once, lines 58-74: up to the for loop
run_graph_once(run_id, graph_id, initial_state, max_steps) ==
    /\ run_id \notin DOMAIN runs
    /\ graph_id \in DOMAIN graphs
    /\ runs' = runs @@
          (run_id :> RunState(run_id, graph_id, RUNNING, graphs[graph_id].start_node_id,
                              DictCopy(initial_state), <<>>))
    /\ frames' = frames @@
          (run_id :> Frame(graphs[graph_id], initial_state, heap,
                           RegisteredOf(graphs[graph_id]),
                           graphs[graph_id].start_node_id, 0, max_steps, "loop", "none"))
    /\ calls' = calls @@ (run_id :> <<>>)
    /\ last_call' = Call("run_graph_once", graph_id, "none")
    /\ UNCHANGED <<_tools, graphs, heap, probe>>

\* mutant: the run record is created and stored before the graph is looked up
run_graph_once_stores_first(graph_id) ==
    /\ graph_id \notin DOMAIN graphs
    /\ \E run_id \in RunIds \ DOMAIN runs :
          runs' = runs @@
              (run_id :> RunState(run_id, graph_id, RUNNING, NoneV, EmptyDict, <<>>))
    /\ last_call' = Call("run_graph_once", graph_id, "KeyError")
    /\ UNCHANGED <<_tools, graphs, frames, heap, calls, probe>>

\* run_graph_once, lines 58-59: the graph id is not in the store
run_graph_once_not_found(graph_id) ==
    /\ graph_id \notin DOMAIN graphs
    /\ last_call' = Call("run_graph_once", graph_id, "KeyError")
    /\ UNCHANGED <<_tools, graphs, runs, frames, heap, calls, probe>>

\* main.run_graph: run_graph_once with the default max_steps
run_graph(run_id, graph_id, initial_state) ==
    /\ graph_id \in DOMAIN graphs
    /\ run_graph_once(run_id, graph_id, initial_state, DefaultMaxSteps)

\* main.run_graph, lines 104-105: 404 for an unknown graph id
run_graph_not_found(graph_id) ==
    /\ graph_id \notin DOMAIN graphs
    /\ last_call' = Call("run_graph", graph_id, "HTTPException404")
    /\ UNCHANGED <<_tools, graphs, runs, frames, heap, calls, probe>>

\* mutant: one iteration too many, range(max_steps + 1)
LoopHasNextOffByOne(step, max_steps) == step <= max_steps

\* mutant: one iteration too few, range(max_steps - 1)
LoopHasNextShort(step, max_steps) == step + 1 < max_steps

\* mutant: the limit is tested after the first iteration only
LoopHasNextAfterFirst(step, max_steps) == step = 0 \/ step < max_steps

\* for _ in range(max_steps): whether another iteration starts
LoopHasNext(step, max_steps) == step < max_steps

\* next(n for n in graph.nodes if n.id == current_node_id)
NodeIndexes(graph, current_node_id) ==
    {i \in 1..Len(graph.nodes) : graph.nodes[i].id = current_node_id}

NodeFound(graph, current_node_id) == NodeIndexes(graph, current_node_id) # {}

FindNode(graph, current_node_id) ==
    graph.nodes[CHOOSE i \in NodeIndexes(graph, current_node_id) :
                    \A j \in NodeIndexes(graph, current_node_id) : i <= j]

InLoop(run_id) ==
    /\ run_id \in DOMAIN frames
    /\ frames[run_id].pc = "loop"

\* mutant: StopIteration is not caught and leaves run_graph_once
StepNodeMissingRaises(run_id) ==
    /\ InLoop(run_id)
    /\ LoopHasNext(frames[run_id].step, frames[run_id].max_steps)
    /\ ~NodeFound(frames[run_id].graph, frames[run_id].current_node_id)
    /\ frames' = [frames EXCEPT ![run_id].pc = "raised",
                                ![run_id].raised = "StopIteration",
                                ![run_id].step = @ + 1]
    /\ UNCHANGED <<_tools, graphs, runs, heap, calls, last_call, probe>>

\* lines 80-89 and 126-127: the current node is no node of the graph
StepNodeMissing(run_id) ==
    /\ InLoop(run_id)
    /\ LoopHasNext(frames[run_id].step, frames[run_id].max_steps)
    /\ ~NodeFound(frames[run_id].graph, frames[run_id].current_node_id)
    /\ runs' = [runs EXCEPT
          ![run_id].status = FAILED,
          ![run_id].logs = Append(@,
              RunLogEntry(frames[run_id].current_node_id, DictCopy(runs[run_id].state),
                  "Node '" \o frames[run_id].current_node_id \o "' not found in graph"))]
    /\ frames' = [frames EXCEPT ![run_id].pc = "returned", ![run_id].step = @ + 1]
    /\ UNCHANGED <<_tools, graphs, heap, calls, last_call, probe>>

InTool(run_id) ==
    /\ run_id \in DOMAIN frames
    /\ frames[run_id].pc = "tool"

\* the call has neither returned nor raised
InFlight(run_id) == InLoop(run_id) \/ InTool(run_id)

\* line 92 raising without suspension (an unregistered name, or a plain function
\* that raises or returns no dict): the exception leaves run_graph_once
StepToolRaises(run_id) ==
    /\ InLoop(run_id)
    /\ LoopHasNext(frames[run_id].step, frames[run_id].max_steps)
    /\ NodeFound(frames[run_id].graph, frames[run_id].current_node_id)
    /\ LET node == FindNode(frames[run_id].graph, frames[run_id].current_node_id)
           out == run_tool(_tools, node.tool_name, runs[run_id].state, heap)
       IN /\ out.raised # "none"
          /\ runs' = [runs EXCEPT ![run_id].state = out.state]
          /\ heap' = out.heap
          /\ calls' = [calls EXCEPT ![run_id] =
                IF Invokes(node.tool_name)
                THEN Append(@, Invocation(node.tool_name, runs[run_id].state, heap, out))
                ELSE @]
          /\ frames' = [frames EXCEPT ![run_id].pc = "raised",
                                      ![run_id].raised = out.raised,
                                      ![run_id].step = @ + 1]
    /\ UNCHANGED <<_tools, graphs, last_call, probe>>

\* lines 93-113 (and 126-127 after the break): the result of the tool is merged into
\* `state`, the run state as the tool left it, and logged, and the next edge is taken
\* or the run is complete; h is the content of the list objects at that time
MergeAndAdvance(run_id, node, state_after_tool, tool_result, h) ==
    LET state == DictUpdate(state_after_tool, tool_result)
        logs == Append(runs[run_id].logs,
                    RunLogEntry(node.id, DictCopy(state),
                        "Executed tool '" \o node.tool_name \o "'"))
        next_edge == _find_next_edge(frames[run_id].graph, frames[run_id].current_node_id,
                                     state, h)
    IN IF next_edge = NoEdge
       THEN /\ runs' = [runs EXCEPT ![run_id].state = state,
                                    ![run_id].logs = logs,
                                    ![run_id].status = COMPLETED,
                                    ![run_id].current_node_id = NoneV]
            /\ frames' = [frames EXCEPT ![run_id].pc = "returned",
                                        ![run_id].step = @ + 1,
                                        ![run_id].pending = NoPending]
       ELSE /\ runs' = [runs EXCEPT ![run_id].state = state,
                                    ![run_id].logs = logs,
                                    ![run_id].current_node_id = next_edge.target]
            /\ frames' = [frames EXCEPT ![run_id].pc = "loop",
                                        ![run_id].current_node_id = next_edge.target,
                                        ![run_id].step = @ + 1,
                                        ![run_id].pending = NoPending]

\* lines 92-113 without suspension (a plain function): the tool ran, its result is
\* merged and logged, and the next edge is taken or the run is complete
StepExecute(run_id) ==
    /\ InLoop(run_id)
    /\ LoopHasNext(frames[run_id].step, frames[run_id].max_steps)
    /\ NodeFound(frames[run_id].graph, frames[run_id].current_node_id)
    /\ LET node == FindNode(frames[run_id].graph, frames[run_id].current_node_id)
           out == run_tool(_tools, node.tool_name, runs[run_id].state, heap)
       IN /\ out.raised = "none"
          /\ heap' = out.heap
          /\ calls' = [calls EXCEPT ![run_id] =
                Append(@, Invocation(node.tool_name, runs[run_id].state, heap, out))]
          /\ MergeAndAdvance(run_id, node, out.state, out.result, out.heap)
    /\ UNCHANGED <<_tools, graphs, last_call, probe>>

\* lines 76-92 and registry.py:27 with a coroutine function: the tool is called on the
\* run's state dict, does its writes and awaits before it returns or raises; the run
\* is suspended
StepAwaitTool(run_id) ==
    /\ InLoop(run_id)
    /\ LoopHasNext(frames[run_id].step, frames[run_id].max_steps)
    /\ NodeFound(frames[run_id].graph, frames[run_id].current_node_id)
    /\ LET node == FindNode(frames[run_id].graph, frames[run_id].current_node_id)
           out == run_tool(_tools, node.tool_name, runs[run_id].state, heap)
       IN /\ Invokes(node.tool_name)
          /\ runs' = [runs EXCEPT ![run_id].state = out.state]
          /\ heap' = out.heap
          /\ frames' = [frames EXCEPT
                ![run_id].pc = "tool",
                ![run_id].pending = Pending(out.raised,
                    Invocation(node.tool_name, runs[run_id].state, heap, out))]
    /\ UNCHANGED <<_tools, graphs, calls, last_call, probe>>

\* the awaited tool raises, or returns no dict (registry.py:27-32): the exception
\* leaves run_graph_once
StepResumeRaises(run_id) ==
    /\ InTool(run_id)
    /\ frames[run_id].pending.raised # "none"
    /\ calls' = [calls EXCEPT ![run_id] = Append(@, frames[run_id].pending.call)]
    /\ frames' = [frames EXCEPT ![run_id].pc = "raised",
                                ![run_id].raised = frames[run_id].pending.raised,
                                ![run_id].step = @ + 1,
                                ![run_id].pending = NoPending]
    /\ UNCHANGED <<_tools, graphs, runs, heap, last_call, probe>>

\* the awaited tool returns a dict (registry.py:27-34), then lines 93-113
StepResumeExecute(run_id) ==
    /\ InTool(run_id)
    /\ frames[run_id].pending.raised = "none"
    /\ calls' = [calls EXCEPT ![run_id] = Append(@, frames[run_id].pending.call)]
    /\ MergeAndAdvance(run_id,
          FindNode(frames[run_id].graph, frames[run_id].current_node_id),
          runs[run_id].state, frames[run_id].pending.call.result, heap)
    /\ UNCHANGED <<_tools, graphs, heap, last_call, probe>>

\* mutant: the else of the for loop sets FAILED without a log entry
StepLimitReachedNoLog(run_id) ==
    /\ InLoop(run_id)
    /\ ~LoopHasNext(frames[run_id].step, frames[run_id].max_steps)
    /\ runs' = [runs EXCEPT ![run_id].status = FAILED]
    /\ frames' = [frames EXCEPT ![run_id].pc = "returned"]
    /\ UNCHANGED <<_tools, graphs, heap, calls, last_call, probe>>

\* lines 115-127: the else of the for loop
StepLimitReached(run_id) ==
    /\ InLoop(run_id)
    /\ ~LoopHasNext(frames[run_id].step, frames[run_id].max_steps)
    /\ runs' = [runs EXCEPT
          ![run_id].status = FAILED,
          ![run_id].logs = Append(@,
              RunLogEntry(frames[run_id].current_node_id, DictCopy(runs[run_id].state),
                  "Max steps reached; aborting (possible infinite loop)"))]
    /\ frames' = [frames EXCEPT ![run_id].pc = "returned"]
    /\ UNCHANGED <<_tools, graphs, heap, calls, last_call, probe>>

\* a value as a reader gets it: a list object with the items it holds now
Resolve(v, h) ==
    IF v.t = "list" THEN [t |-> "list", items |-> h[v.v]]
    ELSE IF v.t = "newlist" THEN [t |-> "list", items |-> v.items]
    ELSE v

ResolveDict(d, h) == [k \in DOMAIN d |-> Resolve(d[k], h)]

ResolveLogs(logs, h) ==
    [i \in 1..Len(logs) |->
        RunLogEntry(logs[i].node_id, ResolveDict(logs[i].state_snapshot, h), logs[i].message)]

\* main.get_graph_state: the response for a run of the store
get_graph_state(rs, h) ==
    [run_id |-> rs.run_id, status |-> rs.status, current_node_id |-> rs.current_node_id,
     state |-> ResolveDict(rs.state, h), logs |-> ResolveLogs(rs.logs, h)]

Next ==
    \/ register_default_tools
    \/ create_example_code_review_graph
    \/ on_startup
    \/ \E graph_id \in GraphIds, req \in Requests : create_graph(graph_id, req)
    \/ \E run_id \in RunIds, graph_id \in AskedGraphIds, max_steps \in StepLimits :
          \E initial_state \in StatesFor(graph_id) :
              run_graph_once(run_id, graph_id, initial_state, max_steps)
    \/ \E graph_id \in AskedGraphIds : run_graph_once_not_found(graph_id)
    \/ \E run_id \in RunIds, graph_id \in AskedGraphIds :
          \E initial_state \in EndpointStatesFor(graph_id) :
              run_graph(run_id, graph_id, initial_state)
    \/ \E graph_id \in AskedGraphIds : run_graph_not_found(graph_id)
    \/ \E run_id \in RunIds : StepNodeMissing(run_id)
    \/ \E run_id \in RunIds : StepToolRaises(run_id)
    \/ \E run_id \in RunIds : StepExecute(run_id)
    \/ \E run_id \in RunIds : StepAwaitTool(run_id)
    \/ \E run_id \in RunIds : StepResumeRaises(run_id)
    \/ \E run_id \in RunIds : StepResumeExecute(run_id)
    \/ \E run_id \in RunIds : StepLimitReached(run_id)

Spec == Init /\ [][Next]_vars

----------------------------------------------------------------------------
(* Second specification: _find_next_edge on bounded edge lists.  The edge  *)
(* lists are all lists of at most MaxEdges edges whose source is A or B,   *)
(* whose guard is absent, false, raising, or a comparison of state['n']    *)
(* (true, false, KeyError or TypeError with the state), and whose i-th     *)
(* edge leads to node Ni, so that each edge of a list is told from the     *)
(* others.  The state is that of a run of such a graph right after         *)
(* run_graph_once created it; the function is called directly, and the     *)
(* run executes through the engine's own steps.                            *)

ProbeConditions == {NoneV, "False", "1/0", "state['n'] < 2"}

ProbeSources == {"A", "B"}

ProbeEdgeLists ==
    UNION {{[i \in 1..k |-> EdgeDefinition(sc[i][1], NodeName(i), sc[i][2])] :
               sc \in [1..k -> ProbeSources \X ProbeConditions]} : k \in 0..MaxEdges}

ProbeGraph(edges) ==
    GraphDefinition("g1",
        <<NodeDefinition("A", "noop"), NodeDefinition("B", "noop")>> \o
            [i \in 1..Len(edges) |-> NodeDefinition(NodeName(i), "noop")],
        edges, "A")

ProbeStates == {EmptyDict, [n |-> IntV(0)], [n |-> IntV(5)], [n |-> ListV("L1")]}

\* the node asked for: one with outgoing edges, one without
ProbeNodes == {"A", "N1"}

Probe(called, graph, current_node_id, state, result) ==
    [called |-> called, graph |-> graph, current_node_id |-> current_node_id,
     state |-> state, result |-> result]

InitEdge ==
    \E edges \in ProbeEdgeLists, state \in ProbeStates, node \in ProbeNodes :
        /\ _tools = TestTools
        /\ graphs = ("g1" :> ProbeGraph(edges))
        /\ runs = ("r1" :> RunState("r1", "g1", RUNNING, "A", DictCopy(state), <<>>))
        /\ frames = ("r1" :> Frame(ProbeGraph(edges), state, EmptyHeap, {"noop"}, "A", 0, 1,
                                  "loop", "none"))
        /\ heap = EmptyHeap
        /\ calls = ("r1" :> <<>>)
        /\ last_call = Call("run_graph_once", "g1", "none")
        /\ probe = Probe(FALSE, ProbeGraph(edges), node, state, NoEdge)

\* a direct call _find_next_edge(graph, current_node_id, state)
find_next_edge_call ==
    /\ ~probe.called
    /\ probe' = Probe(TRUE, probe.graph, probe.current_node_id, probe.state,
                      _find_next_edge(probe.graph, probe.current_node_id, probe.state, heap))
    /\ UNCHANGED <<_tools, graphs, runs, frames, heap, calls, last_call>>

NextEdge ==
    \/ find_next_edge_call
    \/ \E run_id \in RunIds : StepExecute(run_id)
    \/ \E run_id \in RunIds : StepAwaitTool(run_id)
    \/ \E run_id \in RunIds : StepResumeExecute(run_id)
    \/ \E run_id \in RunIds : StepLimitReached(run_id)

SpecEdge == InitEdge /\ [][NextEdge]_vars

----------------------------------------------------------------------------
(* Third specification: several calls of run_graph_once in progress at the *)
(* same time.  The coroutines of the calls are interleaved by the event    *)
(* loop at their awaited tool calls, so between two steps of one run any   *)
(* other run may step.  The caller may give the same initial_state object  *)
(* to several calls.                                                       *)

\* largest max_steps of the concurrent calls
MaxConcurrentSteps == 3

\* uuid4() of the concurrent calls: an id not in use
ConcurrentRunIds == {"r1", "r2"}

ConcurrentStates ==
    {EmptyDict, [n |-> IntV(0)], [n |-> IntV(0), x |-> IntV(0), items |-> ListV("L1")]}

\* the graphs created for the concurrent calls
ConcurrentRequests == {LoopWithExit, DanglingEdge, BoomTool, Appender, Mutators}

NextConcurrent ==
    \/ on_startup
    \/ \E graph_id \in GraphIds, req \in ConcurrentRequests : create_graph(graph_id, req)
    \/ \E run_id \in ConcurrentRunIds, graph_id \in AskedGraphIds,
          initial_state \in ConcurrentStates, max_steps \in 0..MaxConcurrentSteps :
          run_graph_once(run_id, graph_id, initial_state, max_steps)
    \/ \E graph_id \in AskedGraphIds : run_graph_once_not_found(graph_id)
    \/ \E run_id \in ConcurrentRunIds : StepNodeMissing(run_id)
    \/ \E run_id \in ConcurrentRunIds : StepToolRaises(run_id)
    \/ \E run_id \in ConcurrentRunIds : StepExecute(run_id)
    \/ \E run_id \in ConcurrentRunIds : StepAwaitTool(run_id)
    \/ \E run_id \in ConcurrentRunIds : StepResumeRaises(run_id)
    \/ \E run_id \in ConcurrentRunIds : StepResumeExecute(run_id)
    \/ \E run_id \in ConcurrentRunIds : StepLimitReached(run_id)

SpecConcurrent == Init /\ [][NextConcurrent]_vars

----------------------------------------------------------------------------
(* Reference walk of a graph, used to state the claims: where a run that   *)
(* executes at most k nodes from the start node gets to.  A configuration  *)
(* is the node to execute next, the state, the heap and a status:          *)
(* "exit": a node without an eligible outgoing edge was executed;          *)
(* "missing": a node id that is no node was reached; "raised": a tool call *)
(* failed; "running": none of these happened so far.  The merge is written *)
(* with @@ of the TLC module: the keys of the result win.                  *)

WalkConfig(status, node_id, state, h, executed) ==
    [status |-> status, node_id |-> node_id, state |-> state, heap |-> h,
     executed |-> executed]

\* one node execution, with the names in `tools` registered
WalkStep(graph, tools, c) ==
    IF c.status # "running" THEN c
    ELSE IF ~NodeFound(graph, c.node_id)
    THEN WalkConfig("missing", c.node_id, c.state, c.heap, c.executed)
    ELSE LET out == run_tool(tools, FindNode(graph, c.node_id).tool_name, c.state, c.heap)
             merged == out.result @@ out.state
             e == _find_next_edge(graph, c.node_id, merged, out.heap)
         IN IF out.raised # "none"
            THEN WalkConfig("raised", c.node_id, out.state, out.heap, c.executed)
            ELSE IF e = NoEdge
            THEN WalkConfig("exit", c.node_id, merged, out.heap, c.executed + 1)
            ELSE WalkConfig("running", e.target, merged, out.heap, c.executed + 1)

\* k node executions (by halving, to keep the evaluation shallow)
RECURSIVE WalkFrom(_, _, _, _)
WalkFrom(graph, tools, c, k) ==
    IF k <= 0 THEN c
    ELSE IF k = 1 THEN WalkStep(graph, tools, c)
    ELSE LET half == WalkFrom(graph, tools, c, k \div 2) IN
         IF half.status # "running" THEN half
         ELSE WalkFrom(graph, tools, half, k - (k \div 2))

Walk(graph, tools, initial_state, k) ==
    WalkFrom(graph, tools,
             WalkConfig("running", graph.start_node_id, initial_state, EmptyHeap, 0), k)

\* the walk of a run with the tools that were registered when the call was made (a
\* registered name stays registered)
WalkOf(run_id, k) ==
    Walk(frames[run_id].graph, frames[run_id].tools, frames[run_id].initial_state, k)

\* the start node and every edge endpoint are nodes of the graph
WellFormed(graph) ==
    LET ids == {graph.nodes[i].id : i \in 1..Len(graph.nodes)} IN
    /\ graph.start_node_id \in ids
    /\ \A i \in 1..Len(graph.edges) :
          graph.edges[i].source \in ids /\ graph.edges[i].target \in ids

IsRequest(graph, req) ==
    /\ graph.nodes = req.nodes
    /\ graph.edges = req.edges
    /\ graph.start_node_id = req.start_node_id

AbortMessage == "Max steps reached; aborting (possible infinite loop)"

Last(seq) == seq[Len(seq)]

Returned(run_id) == run_id \in DOMAIN frames /\ frames[run_id].pc = "returned"

\* the node executions looked at to tell whether the walk of a run leaves its cycle:
\* MaxSteps more than the budget of the run (the guards of the graphs of the model
\* are decided within MaxSteps executions)
HorizonOf(run_id) == Max0(frames[run_id].max_steps) + MaxSteps

\* some step of the for loop of the run is enabled
CanStep(run_id) ==
    \/ ENABLED StepNodeMissing(run_id)
    \/ ENABLED StepToolRaises(run_id)
    \/ ENABLED StepExecute(run_id)
    \/ ENABLED StepResumeRaises(run_id)
    \/ ENABLED StepResumeExecute(run_id)
    \/ ENABLED StepLimitReached(run_id)

----------------------------------------------------------------------------
(* C1: a run on a well-formed graph whose walk never leaves its cycle      *)
(* (every node exists, every tool succeeds, every executed node has an     *)
(* eligible outgoing edge) and with max_steps >= 1 raises nothing, keeps   *)
(* stepping while it has not returned, and returns FAILED after exactly    *)
(* max_steps tool executions with the 'Max steps reached' entry last.      *)

C1_Endless(run_id) ==
    /\ frames[run_id].max_steps >= 1
    /\ WellFormed(frames[run_id].graph)
    /\ WalkOf(run_id, HorizonOf(run_id)).status = "running"

\* C1: a run in a cycle that is never left returns FAILED after exactly max_steps
\* tool executions, the step-limit entry last in its log
C1_StepLimitAbort ==
    \A run_id \in DOMAIN frames :
        C1_Endless(run_id) =>
            /\ frames[run_id].pc # "raised"
            /\ InFlight(run_id) =>
                  /\ runs[run_id].status = RUNNING
                  /\ Len(calls[run_id]) = frames[run_id].step
                  /\ frames[run_id].step <= frames[run_id].max_steps
                  /\ InTool(run_id) => frames[run_id].step < frames[run_id].max_steps
                  /\ CanStep(run_id)
            /\ frames[run_id].pc = "returned" =>
                  /\ runs[run_id].status = FAILED
                  /\ Len(calls[run_id]) = frames[run_id].max_steps
                  /\ Last(runs[run_id].logs).message = AbortMessage

C1_Witness ==
    \E run_id \in DOMAIN frames :
        /\ C1_Endless(run_id)
        /\ IsRequest(frames[run_id].graph, CycleTwo)
        /\ frames[run_id].max_steps = 3
        /\ frames[run_id].pc = "returned"
        /\ runs[run_id].status = FAILED
        /\ Len(calls[run_id]) = 3

----------------------------------------------------------------------------
(* C2 as stated: a run of the self-loop graph with the counter guard and   *)
(* max_steps = 5 returns FAILED with a log of length exactly 5.            *)

C2_SelfLoopRun(run_id) ==
    /\ IsRequest(frames[run_id].graph, SelfLoopCounter)
    /\ WalkOf(run_id, HorizonOf(run_id)).status = "running"

\* C2 as stated: the self-loop run with max_steps = 5 returns FAILED with 5 log entries
C2_LogLengthIsMaxSteps ==
    \A run_id \in DOMAIN frames :
        (C2_SelfLoopRun(run_id) /\ frames[run_id].max_steps = 5 /\ Returned(run_id)) =>
            /\ runs[run_id].status = FAILED
            /\ Len(runs[run_id].logs) = 5

(* C2 amended: the run returns FAILED with max_steps + 1 log entries, the  *)
(* max_steps entries of the executed steps followed by the abort entry (6  *)
(* for max_steps = 5); every run that the step limit aborts has            *)
(* max_steps + 1 log entries (1 when max_steps is not positive).           *)

\* C2 amended: a run aborted by the step limit returns FAILED with max_steps + 1 log
\* entries (6 for the self-loop run with max_steps = 5), the abort entry last
C2_LogLengthIsMaxStepsPlusOne ==
    \A run_id \in DOMAIN frames :
        Returned(run_id) =>
            /\ C2_SelfLoopRun(run_id) =>
                  /\ runs[run_id].status = FAILED
                  /\ Len(runs[run_id].logs) = Max0(frames[run_id].max_steps) + 1
                  /\ frames[run_id].max_steps = 5 => Len(runs[run_id].logs) = 6
            /\ (/\ runs[run_id].status = FAILED
                /\ frames[run_id].step = Max0(frames[run_id].max_steps)
                /\ NodeFound(frames[run_id].graph, frames[run_id].current_node_id)) =>
                  /\ Len(runs[run_id].logs) = Max0(frames[run_id].max_steps) + 1
                  /\ Last(runs[run_id].logs).message = AbortMessage
                  /\ \A i \in 1..(Len(runs[run_id].logs) - 1) :
                        runs[run_id].logs[i].message # AbortMessage

C2_Witness ==
    \E run_id \in DOMAIN frames :
        /\ C2_SelfLoopRun(run_id)
        /\ frames[run_id].max_steps = 5
        /\ Returned(run_id)
        /\ runs[run_id].status = FAILED
        /\ Len(runs[run_id].logs) = 6
        /\ runs[run_id].state["n"] = IntV(5)

----------------------------------------------------------------------------
(* C3 as stated: a run on a well-formed graph whose tools succeed and      *)
(* whose walk reaches an exit (a node without eligible outgoing edge)      *)
(* returns COMPLETED, never FAILED.                                        *)

C3_Exiting(run_id) ==
    /\ WellFormed(frames[run_id].graph)
    /\ WalkOf(run_id, HorizonOf(run_id)).status = "exit"

\* C3 as stated: a run on a well-formed graph with succeeding tools and a reachable
\* exit returns COMPLETED, never FAILED
C3_AlwaysCompleted ==
    \A run_id \in DOMAIN frames :
        C3_Exiting(run_id) =>
            /\ frames[run_id].pc # "raised"
            /\ Returned(run_id) => runs[run_id].status = COMPLETED

(* C3 amended: such a run raises nothing, keeps stepping while in the      *)
(* loop, and returns COMPLETED exactly when the exit is reached within     *)
(* max_steps node executions; otherwise it returns FAILED by the step      *)
(* limit after max_steps executions.                                       *)

\* C3 amended: such a run returns COMPLETED exactly when the exit is reached within
\* max_steps node executions, and FAILED by the step limit otherwise
C3_CompletedIffExitWithinMaxSteps ==
    \A run_id \in DOMAIN frames :
        C3_Exiting(run_id) =>
            LET needed == WalkOf(run_id, HorizonOf(run_id)).executed IN
            /\ frames[run_id].pc # "raised"
            /\ InFlight(run_id) => CanStep(run_id)
            /\ Returned(run_id) =>
                  /\ runs[run_id].status \in {COMPLETED, FAILED}
                  /\ runs[run_id].status = COMPLETED <=> needed <= frames[run_id].max_steps
                  /\ runs[run_id].status = COMPLETED =>
                        /\ Len(calls[run_id]) = needed
                        /\ Len(runs[run_id].logs) = needed
                  /\ runs[run_id].status = FAILED =>
                        /\ Len(calls[run_id]) = Max0(frames[run_id].max_steps)
                        /\ Last(runs[run_id].logs).message = AbortMessage

C3_Witness ==
    \E run_id \in DOMAIN frames :
        /\ C3_Exiting(run_id)
        /\ IsRequest(frames[run_id].graph, Branching)
        /\ frames[run_id].max_steps = 4
        /\ Returned(run_id)
        /\ runs[run_id].status = COMPLETED
        /\ Len(calls[run_id]) = 4

----------------------------------------------------------------------------
(* C4: a run on the linear graph N1 -> ... -> Nn (no guards, tools that    *)
(* succeed) with n <= max_steps raises nothing and returns COMPLETED with  *)
(* current node id None and exactly n log entries, of N1, ..., Nn in this  *)
(* order, each the entry of an executed tool.                              *)

C4_LinearRun(run_id, n) ==
    /\ IsRequest(frames[run_id].graph, LinearRequest(n))
    /\ n <= frames[run_id].max_steps
    /\ WalkOf(run_id, n).status # "raised"

\* C4: the run of N1 -> ... -> Nn with n <= max_steps returns COMPLETED with current
\* node id None and the n log entries of N1, ..., Nn in order
C4_LinearCompletes ==
    \A run_id \in DOMAIN frames : \A n \in 1..MaxLinear :
        C4_LinearRun(run_id, n) =>
            /\ frames[run_id].pc # "raised"
            /\ Returned(run_id) =>
                  /\ runs[run_id].status = COMPLETED
                  /\ runs[run_id].current_node_id = NoneV
                  /\ Len(runs[run_id].logs) = n
                  /\ \A i \in 1..n :
                        /\ runs[run_id].logs[i].node_id = NodeName(i)
                        /\ runs[run_id].logs[i].message = "Executed tool 'inc'"

C4_Witness ==
    \E run_id \in DOMAIN frames :
        /\ C4_LinearRun(run_id, 3)
        /\ Returned(run_id)
        /\ runs[run_id].status = COMPLETED
        /\ Len(runs[run_id].logs) = 3
        /\ runs[run_id].logs[3].node_id = "N3"

----------------------------------------------------------------------------
(* C5 as stated: no call of run_graph_once on a stored graph raises, and   *)
(* each returns a run whose status is COMPLETED or FAILED.                 *)

C5_NeverRaises ==
    \A run_id \in DOMAIN frames :
        /\ frames[run_id].pc # "raised"
        /\ Returned(run_id) => runs[run_id].status \in {COMPLETED, FAILED}

----------------------------------------------------------------------------
(* C6 as stated: once run_graph_once has stopped executing, the stored     *)
(* record is not RUNNING, and a run stopped by a failing tool call is      *)
(* FAILED with a log entry for the node whose tool failed.                 *)

C6_ToolFailureRecorded ==
    \A run_id \in DOMAIN frames :
        ~InFlight(run_id) =>
            /\ runs[run_id].status # RUNNING
            /\ frames[run_id].raised # "none" =>
                  /\ runs[run_id].status = FAILED
                  /\ runs[run_id].logs # <<>>
                  /\ Last(runs[run_id].logs).node_id = frames[run_id].current_node_id

----------------------------------------------------------------------------
(* C7: a step of a run whose current node id is no node of the graph sets  *)
(* status FAILED, appends exactly one log entry, which carries that id and *)
(* a snapshot of the unchanged state, invokes no tool, merges nothing, and *)
(* returns the run (nothing is raised).                                    *)

C7_Acts(run_id) ==
    <<runs[run_id], frames[run_id], calls[run_id]>>' #
        <<runs[run_id], frames[run_id], calls[run_id]>>

\* C7: a step at a node id that is no node of the graph sets FAILED, appends one log
\* entry with that id, invokes no tool, merges nothing and returns
C7_MissingNodeFails ==
    [][\A run_id \in DOMAIN frames :
          (/\ InLoop(run_id)
           /\ ~NodeFound(frames[run_id].graph, frames[run_id].current_node_id)
           /\ C7_Acts(run_id)) =>
              /\ runs'[run_id].status = FAILED
              /\ Len(runs'[run_id].logs) = Len(runs[run_id].logs) + 1
              /\ SubSeq(runs'[run_id].logs, 1, Len(runs[run_id].logs)) = runs[run_id].logs
              /\ Last(runs'[run_id].logs).node_id = frames[run_id].current_node_id
              /\ Last(runs'[run_id].logs).state_snapshot = runs[run_id].state
              /\ runs'[run_id].state = runs[run_id].state
              /\ calls'[run_id] = calls[run_id]
              /\ heap' = heap
              /\ frames'[run_id].pc = "returned"
              /\ frames'[run_id].raised = "none"]_vars

C7_Witness ==
    \E run_id \in DOMAIN frames :
        /\ Returned(run_id)
        /\ IsRequest(frames[run_id].graph, DanglingEdge)
        /\ frames[run_id].current_node_id = "Z"
        /\ runs[run_id].status = FAILED
        /\ Len(calls[run_id]) = 1
        /\ Len(runs[run_id].logs) = 2
        /\ Last(runs[run_id].logs).message = "Node 'Z' not found in graph"

----------------------------------------------------------------------------
(* C8: a call of run_graph_once (or of the run endpoint) with a graph id   *)
(* that is not in the graph store raises the not-found error (KeyError     *)
(* from the engine, 404 from the endpoint) and changes neither the run     *)
(* store nor any run, and invokes no tool; every run record is of a graph  *)
(* in the store.                                                           *)

\* C8: a call with a graph id that is not stored raises not-found and leaves the run
\* store and every run unchanged; no tool is invoked
C8_UnknownGraphRaises ==
    [][/\ \A graph_id \in AskedGraphIds :
            (/\ graph_id \notin DOMAIN graphs
             /\ last_call' # last_call
             /\ last_call'.graph_id = graph_id) =>
                /\ last_call'.op = "run_graph_once" => last_call'.error = "KeyError"
                /\ last_call'.op = "run_graph" => last_call'.error = "HTTPException404"
                /\ runs' = runs
                /\ frames' = frames
                /\ calls' = calls
                /\ heap' = heap
       /\ \A run_id \in DOMAIN runs' : runs'[run_id].graph_id \in DOMAIN graphs]_vars

C8_Witness ==
    /\ last_call = Call("run_graph_once", "unknown", "KeyError")
    /\ "unknown" \notin DOMAIN graphs
    /\ DOMAIN graphs # {}
    /\ \E run_id \in DOMAIN runs : runs[run_id].status = COMPLETED

----------------------------------------------------------------------------
(* C9 (under SpecEdge): _find_next_edge returns the first edge, in         *)
(* declared order, among the edges whose source is the current node, that  *)
(* has no guard or whose guard evaluates true; it returns None when the    *)
(* node has no such edge; it never returns an edge of another source node. *)

C9_Eligible(edges, i, current_node_id, state, h) ==
    /\ edges[i].source = current_node_id
    /\ \/ edges[i].condition = NoneV
       \/ Eval(edges[i].condition, state, h) = "true"

\* C9: _find_next_edge returns the first edge of the current node, in declared order,
\* that is unguarded or whose guard is true, and None when there is none
C9_FirstEligibleEdge ==
    probe.called =>
        LET edges == probe.graph.edges
            eligible == {i \in 1..Len(edges) :
                            C9_Eligible(edges, i, probe.current_node_id, probe.state, heap)}
        IN /\ eligible = {} => probe.result = NoEdge
           /\ eligible # {} =>
                 /\ \E i \in eligible :
                       /\ \A j \in eligible : i <= j
                       /\ probe.result = edges[i]
                 /\ probe.result.source = probe.current_node_id

C9_Witness ==
    /\ probe.called
    /\ Len(probe.graph.edges) = 3
    /\ probe.current_node_id = "A"
    /\ probe.graph.edges[1].source = "A"
    /\ probe.graph.edges[1].condition = "state['n'] < 2"
    /\ Eval(probe.graph.edges[1].condition, probe.state, heap) = "false"
    /\ probe.graph.edges[2].source = "B"
    /\ probe.graph.edges[2].condition = NoneV
    /\ probe.result = probe.graph.edges[3]
    /\ probe.result.condition = NoneV

----------------------------------------------------------------------------
(* C10 (under SpecEdge): a guard whose evaluation raises is skipped.  The  *)
(* result of _find_next_edge is the result for the same edge list with     *)
(* every raising guard replaced by the guard False, and it is never the    *)
(* edge of a raising guard; a step of a run whose current node has an      *)
(* edge with a raising guard raises nothing, leaves the run RUNNING on the *)
(* target of that result, or COMPLETED when the result is None.            *)

C10_Raises(edge, state, h) ==
    edge.condition # NoneV /\ Eval(edge.condition, state, h) = "error"

C10_WithFalseGuards(graph, state, h) ==
    [graph EXCEPT !.edges =
        [i \in 1..Len(graph.edges) |->
            IF C10_Raises(graph.edges[i], state, h)
            THEN EdgeDefinition(graph.edges[i].source, graph.edges[i].target, "False")
            ELSE graph.edges[i]]]

C10_HasRaisingGuard(graph, current_node_id, state, h) ==
    \E i \in 1..Len(graph.edges) :
        graph.edges[i].source = current_node_id /\ C10_Raises(graph.edges[i], state, h)

C10_Executes(run_id) == Len(calls'[run_id]) = Len(calls[run_id]) + 1

\* C10: a raising guard counts as a false guard: same result, nothing raised, the run
\* goes on to the selected target or completes
C10_RaisingGuardSkipped ==
    [][/\ probe'.called =>
             /\ probe'.result =
                   _find_next_edge(C10_WithFalseGuards(probe'.graph, probe'.state, heap'),
                                   probe'.current_node_id, probe'.state, heap')
             /\ probe'.result # NoEdge => ~C10_Raises(probe'.result, probe'.state, heap')
       /\ \A run_id \in DOMAIN frames :
             (/\ InFlight(run_id)
              /\ C10_Executes(run_id)
              /\ C10_HasRaisingGuard(frames[run_id].graph, frames[run_id].current_node_id,
                                     runs'[run_id].state, heap')) =>
                 LET e == _find_next_edge(
                              C10_WithFalseGuards(frames[run_id].graph, runs'[run_id].state,
                                                  heap'),
                              frames[run_id].current_node_id, runs'[run_id].state, heap')
                 IN /\ frames'[run_id].pc # "raised"
                    /\ frames'[run_id].raised = "none"
                    /\ e = NoEdge =>
                          /\ runs'[run_id].status = COMPLETED
                          /\ frames'[run_id].pc = "returned"
                    /\ e # NoEdge =>
                          /\ runs'[run_id].status = RUNNING
                          /\ frames'[run_id].pc = "loop"
                          /\ runs'[run_id].current_node_id = e.target]_vars

C10_Witness ==
    /\ probe.called
    /\ probe.current_node_id = "A"
    /\ Len(probe.graph.edges) = 3
    /\ \A i \in 1..2 :
          /\ probe.graph.edges[i].source = "A"
          /\ C10_Raises(probe.graph.edges[i], probe.state, heap)
    /\ probe.graph.edges[1].condition = "1/0"
    /\ probe.graph.edges[2].condition = "state['n'] < 2"
    /\ probe.result = probe.graph.edges[3]
    /\ \E run_id \in DOMAIN frames :
          /\ frames[run_id].current_node_id = "N3"
          /\ runs[run_id].status = RUNNING
          /\ Len(runs[run_id].logs) = 1

----------------------------------------------------------------------------
(* C11: the merge of a step is right-biased.  With S the run state as the  *)
(* tool left it and R the returned dict, the state after the step in which *)
(* the tool returns has the keys of S and of R and no other, maps every    *)
(* key of R to R's value and every other key of S to S's value;            *)
(* {x: 0, y: 2} merged with {x: 1} is {x: 1, y: 2}.                        *)

C11_Merged(run_id) ==
    /\ InFlight(run_id)
    /\ Len(calls'[run_id]) = Len(calls[run_id]) + 1
    /\ frames'[run_id].pc # "raised"

\* C11: after a tool returned R on state S, the new state maps each key of R to R's
\* value, each key of S not in R to S's value, and has no other key
C11_MergeRightBiased ==
    [][\A run_id \in DOMAIN frames :
          C11_Merged(run_id) =>
              LET R == Last(calls'[run_id]).result
                  S == Last(calls'[run_id]).after
                  new == runs'[run_id].state
              IN /\ DOMAIN new = (DOMAIN S) \cup (DOMAIN R)
                 /\ \A k \in DOMAIN R : new[k] = R[k]
                 /\ \A k \in (DOMAIN S) \ (DOMAIN R) : new[k] = S[k]
                 /\ (S = [x |-> IntV(0), y |-> IntV(2)] /\ R = [x |-> IntV(1)]) =>
                       new = [x |-> IntV(1), y |-> IntV(2)]]_vars

C11_Witness ==
    \E run_id \in DOMAIN frames :
        /\ Len(calls[run_id]) = 1
        /\ calls[run_id][1].state = [x |-> IntV(0), y |-> IntV(2)]
        /\ calls[run_id][1].after = [x |-> IntV(0), y |-> IntV(2)]
        /\ calls[run_id][1].result = [x |-> IntV(1)]
        /\ runs[run_id].state = [x |-> IntV(1), y |-> IntV(2)]

----------------------------------------------------------------------------
(* C13 as stated: every run record whose status is COMPLETED or FAILED has *)
(* the current node id None.                                               *)

\* C13: in every run record with status COMPLETED or FAILED the current node id is None
C13_TerminalNodeIdNull ==
    \A run_id \in DOMAIN runs :
        runs[run_id].status \in {COMPLETED, FAILED} =>
            runs[run_id].current_node_id = NoneV

----------------------------------------------------------------------------
(* C15 as stated: across every transition the log a reader gets for a run  *)
(* is extended at its end only: the entries it had (node id, message and   *)
(* state snapshot, as read) are the first entries of the new log.          *)

C15_IsPrefix(old, new) ==
    /\ Len(old) <= Len(new)
    /\ \A i \in 1..Len(old) : new[i] = old[i]

\* C15: the log of a run is append-only: across every transition the log read before is
\* a prefix of the log read after, no entry reordered, removed or modified
C15_LogAppendOnly ==
    [][\A run_id \in DOMAIN runs :
          C15_IsPrefix(get_graph_state(runs[run_id], heap).logs,
                       get_graph_state(runs'[run_id], heap').logs)]_vars

----------------------------------------------------------------------------
(* C16 as stated: the entry written for an executed node carries a         *)
(* snapshot equal to the run state right after that step's merge, and no   *)
(* later step changes the snapshot of an entry, nested values included.    *)

C16_Snapshot(run_id, i, rs, h) == ResolveDict(rs[run_id].logs[i].state_snapshot, h)

\* C16: the snapshot of an executed node's entry equals the state after that step's
\* merge, and no later step changes the snapshot of an earlier entry
C16_SnapshotIndependent ==
    [][\A run_id \in DOMAIN frames :
          /\ C11_Merged(run_id) =>
                C16_Snapshot(run_id, Len(runs'[run_id].logs), runs', heap') =
                    ResolveDict(runs'[run_id].state, heap')
          /\ \A i \in 1..Len(runs[run_id].logs) :
                C16_Snapshot(run_id, i, runs', heap') = C16_Snapshot(run_id, i, runs, heap)]_vars

----------------------------------------------------------------------------
(* C17 as stated: the engine is the sole writer of the run state.  For     *)
(* every step in which a call of a tool ends, having returned R, the state *)
(* after the step is the state before the step merged with R, nested       *)
(* values included, and no other step of the run changes its state: no key *)
(* changes except through R.                                               *)

C17_Called(run_id) ==
    /\ InFlight(run_id)
    /\ Len(calls'[run_id]) = Len(calls[run_id]) + 1

\* a step of the run that ends no call of a tool
C17_OtherStep(run_id) ==
    /\ InFlight(run_id)
    /\ frames'[run_id] # frames[run_id]
    /\ calls'[run_id] = calls[run_id]

\* C17: for every tool, the run state after a step equals the state before the step
\* merged with the returned mapping; a tool that fails leaves the state as it was
C17_EngineSoleWriter ==
    [][\A run_id \in DOMAIN frames :
          LET before == ResolveDict(runs[run_id].state, heap)
              after == ResolveDict(runs'[run_id].state, heap')
          IN /\ C17_Called(run_id) =>
                   LET R == Last(calls'[run_id]).result
                   IN /\ DOMAIN after = (DOMAIN before) \cup (DOMAIN R)
                      /\ \A k \in DOMAIN R : after[k] = Resolve(R[k], heap')
                      /\ \A k \in (DOMAIN before) \ (DOMAIN R) : after[k] = before[k]
             /\ C17_OtherStep(run_id) => after = before]_vars

----------------------------------------------------------------------------
(* C19: the entries written for executed nodes form a path from the start  *)
(* node.  The first is the entry of the start node, and for consecutive    *)
(* executed entries there is an edge of the graph from the node of the     *)
(* first to the node of the second, which is the edge _find_next_edge      *)
(* selects for the first node under the first entry's snapshot.            *)

\* the entries of executed nodes: those that are neither the missing-node entry nor
\* the step-limit entry
C19_Executed(logs) ==
    {i \in 1..Len(logs) :
        /\ logs[i].message # AbortMessage
        /\ logs[i].message # "Node '" \o logs[i].node_id \o "' not found in graph"}

\* C19: the executed entries of a log start at the start node, and each next one is
\* the target of the edge _find_next_edge selects under the previous entry's snapshot
C19_LogIsPath ==
    \A run_id \in DOMAIN runs :
        LET logs == runs[run_id].logs
            graph == frames[run_id].graph
            executed == C19_Executed(logs)
        IN /\ executed = 1..Cardinality(executed)
           /\ 1 \in executed => logs[1].node_id = graph.start_node_id
           /\ \A i \in executed :
                 (i + 1) \in executed =>
                     LET e == _find_next_edge(graph, logs[i].node_id,
                                              logs[i].state_snapshot, heap)
                     IN /\ e # NoEdge
                        /\ \E j \in 1..Len(graph.edges) :
                              /\ graph.edges[j] = e
                              /\ graph.edges[j].source = logs[i].node_id
                              /\ graph.edges[j].target = logs[i + 1].node_id

----------------------------------------------------------------------------
(* C20: a run with max_steps >= 0 starts at most max_steps iterations,     *)
(* invokes at most max_steps tools and never has more than max_steps + 1   *)
(* log entries; with max_steps = 0 it invokes no tool, raises nothing and  *)
(* returns FAILED with one log entry, the step-limit entry of the start    *)
(* node.                                                                   *)

\* C20: a run invokes at most max_steps tools and logs at most max_steps + 1 entries;
\* with max_steps = 0 it ends FAILED with the single abort entry of the start node
C20_StepBudget ==
    \A run_id \in DOMAIN frames :
        frames[run_id].max_steps >= 0 =>
            /\ frames[run_id].step <= frames[run_id].max_steps
            /\ Len(calls[run_id]) <= frames[run_id].step
            /\ InTool(run_id) => Len(calls[run_id]) + 1 <= frames[run_id].max_steps
            /\ Len(runs[run_id].logs) <= frames[run_id].max_steps + 1
            /\ frames[run_id].max_steps = 0 =>
                  /\ calls[run_id] = <<>>
                  /\ frames[run_id].pc \notin {"raised", "tool"}
                  /\ frames[run_id].pc = "loop" =>
                        /\ runs[run_id].logs = <<>>
                        /\ ENABLED StepLimitReached(run_id)
                  /\ Returned(run_id) =>
                        /\ runs[run_id].status = FAILED
                        /\ Len(runs[run_id].logs) = 1
                        /\ runs[run_id].logs[1].node_id = frames[run_id].graph.start_node_id
                        /\ runs[run_id].logs[1].message = AbortMessage
                        /\ runs[run_id].state = frames[run_id].initial_state

C20_Witness ==
    \E run_id \in DOMAIN frames :
        /\ frames[run_id].max_steps = 0
        /\ IsRequest(frames[run_id].graph, Branching)
        /\ Returned(run_id)
        /\ runs[run_id].status = FAILED
        /\ calls[run_id] = <<>>
        /\ Len(runs[run_id].logs) = 1
        /\ runs[run_id].logs[1].node_id = "A"
        /\ runs[run_id].logs[1].message = AbortMessage

----------------------------------------------------------------------------
(* C12 (under SpecConcurrent): two calls of run_graph_once for the same    *)
(* graph with the same initial state and the same max_steps, with the same *)
(* tools registered from the first call on, whose tools are functions of   *)
(* the state they are given (each call of a tool left its argument and     *)
(* every list as it found them), end alike: the same                       *)
(* exception or none, the same status, the same final state and the same   *)
(* sequence of log node ids; the run ids differ.                           *)

C12_Ended(run_id) == run_id \in DOMAIN frames /\ ~InFlight(run_id)

\* the tools of the graph that are registered are those that were registered when
\* the call was made
C12_SameTools(run_id) == frames[run_id].tools = RegisteredOf(frames[run_id].graph)

C12_ToolsAreFunctions(run_id) ==
    \A i \in 1..Len(calls[run_id]) :
        /\ calls[run_id][i].after = calls[run_id][i].state
        /\ calls[run_id][i].heap_after = calls[run_id][i].heap

C12_SameInput(r1, r2) ==
    /\ frames[r1].graph = frames[r2].graph
    /\ frames[r1].max_steps = frames[r2].max_steps
    /\ ResolveDict(frames[r1].initial_state, frames[r1].initial_heap) =
          ResolveDict(frames[r2].initial_state, frames[r2].initial_heap)

C12_NodeIds(run_id) ==
    [i \in 1..Len(runs[run_id].logs) |-> runs[run_id].logs[i].node_id]

\* C12: two runs of the same graph with identical initial state and max_steps and tools
\* that are functions of their input state have the same log node ids, final state and
\* status; only the run ids differ
C12_Deterministic ==
    \A r1 \in DOMAIN frames : \A r2 \in DOMAIN frames \ {r1} :
        (/\ C12_Ended(r1) /\ C12_Ended(r2)
         /\ C12_SameInput(r1, r2)
         /\ C12_SameTools(r1) /\ C12_SameTools(r2)
         /\ C12_ToolsAreFunctions(r1) /\ C12_ToolsAreFunctions(r2)) =>
            /\ runs[r1].run_id # runs[r2].run_id
            /\ frames[r1].raised = frames[r2].raised
            /\ runs[r1].status = runs[r2].status
            /\ C12_NodeIds(r1) = C12_NodeIds(r2)
            /\ get_graph_state(runs[r1], heap).state = get_graph_state(runs[r2], heap).state
            /\ [get_graph_state(runs[r1], heap) EXCEPT !.run_id = r2] =
                  get_graph_state(runs[r2], heap)

C12_Witness ==
    /\ C12_Ended("r1") /\ C12_Ended("r2")
    /\ C12_SameInput("r1", "r2")
    /\ C12_SameTools("r1") /\ C12_SameTools("r2")
    /\ IsRequest(frames["r1"].graph, LoopWithExit)
    /\ frames["r1"].initial_state = [n |-> IntV(0)]
    /\ frames["r1"].max_steps = 3
    /\ C12_ToolsAreFunctions("r1") /\ C12_ToolsAreFunctions("r2")
    /\ runs["r1"].status = COMPLETED /\ runs["r2"].status = COMPLETED
    /\ runs["r1"].state = [n |-> IntV(3)] /\ runs["r2"].state = [n |-> IntV(3)]
    /\ C12_NodeIds("r1") = <<"A", "A", "A">>
    /\ C12_NodeIds("r2") = <<"A", "A", "A">>

----------------------------------------------------------------------------
(* C14 as stated (under SpecConcurrent): once the status of a run record   *)
(* is COMPLETED or FAILED, what a reader gets for the run (status, current *)
(* node id, state, log) is the same after every later step of the engine.  *)

\* C14: a run record whose status is COMPLETED or FAILED is read-only: no later step
\* changes its status, current node id, state or log
C14_TerminalReadOnly ==
    [][\A run_id \in DOMAIN runs :
          runs[run_id].status \in {COMPLETED, FAILED} =>
              get_graph_state(runs'[run_id], heap') = get_graph_state(runs[run_id], heap)]_vars

----------------------------------------------------------------------------
(* C18 as stated (under SpecConcurrent): the runs in progress have         *)
(* distinct ids; a step of one run leaves what a reader gets for every     *)
(* other run as it was; and a run that has ended has the status, state and *)
(* log of the same call executed alone with the tools registered that were *)
(* registered during the run.                                              *)

\* one iteration of the for loop of a call executed alone; a configuration holds the
\* run record, the heap, the exception raised, the node to execute and whether the
\* call has ended
C18_Config(rs, h, raised, current_node_id, ended) ==
    [run |-> rs, heap |-> h, raised |-> raised, current_node_id |-> current_node_id,
     ended |-> ended]

C18_AloneStep(graph, tools, c) ==
    IF ~NodeFound(graph, c.current_node_id)
    THEN C18_Config([c.run EXCEPT
                        !.status = FAILED,
                        !.logs = Append(@, RunLogEntry(c.current_node_id, c.run.state,
                            "Node '" \o c.current_node_id \o "' not found in graph"))],
                    c.heap, "none", c.current_node_id, TRUE)
    ELSE LET node == FindNode(graph, c.current_node_id)
             out == run_tool(tools, node.tool_name, c.run.state, c.heap)
             state == out.result @@ out.state
             logs == Append(c.run.logs, RunLogEntry(node.id, state,
                                            "Executed tool '" \o node.tool_name \o "'"))
             e == _find_next_edge(graph, c.current_node_id, state, out.heap)
         IN IF out.raised # "none"
            THEN C18_Config([c.run EXCEPT !.state = out.state], out.heap, out.raised,
                            c.current_node_id, TRUE)
            ELSE IF e = NoEdge
            THEN C18_Config([c.run EXCEPT !.state = state, !.logs = logs,
                                          !.status = COMPLETED, !.current_node_id = NoneV],
                            out.heap, "none", c.current_node_id, TRUE)
            ELSE C18_Config([c.run EXCEPT !.state = state, !.logs = logs,
                                          !.current_node_id = e.target],
                            out.heap, "none", e.target, FALSE)

\* the for loop with `left` iterations to go, and its else branch
RECURSIVE C18_Alone(_, _, _, _)
C18_Alone(graph, tools, c, left) ==
    IF left <= 0
    THEN C18_Config([c.run EXCEPT
                        !.status = FAILED,
                        !.logs = Append(@, RunLogEntry(c.current_node_id, c.run.state,
                                                       AbortMessage))],
                    c.heap, "none", c.current_node_id, TRUE)
    ELSE LET next == C18_AloneStep(graph, tools, c) IN
         IF next.ended THEN next ELSE C18_Alone(graph, tools, next, left - 1)

C18_AloneOf(run_id) ==
    C18_Alone(frames[run_id].graph, frames[run_id].tools,
        C18_Config(RunState(run_id, frames[run_id].graph.id, RUNNING,
                            frames[run_id].graph.start_node_id,
                            frames[run_id].initial_state, <<>>),
                   frames[run_id].initial_heap, "none",
                   frames[run_id].graph.start_node_id, FALSE),
        frames[run_id].max_steps)

C18_Steps(run_id) == run_id \in DOMAIN frames /\ frames'[run_id] # frames[run_id]

\* C18: concurrent runs have distinct ids, no step of one run changes another run's
\* record, and a run ends with the state, log and status it has when executed alone
C18_RunsIsolated ==
    [][/\ \A run_id \in DOMAIN runs' : runs'[run_id].run_id = run_id
       /\ \A run_id \in DOMAIN frames : \A other \in DOMAIN runs \ {run_id} :
             C18_Steps(run_id) =>
                 get_graph_state(runs'[other], heap') = get_graph_state(runs[other], heap)
       /\ \A run_id \in DOMAIN frames :
             (frames'[run_id].pc \in {"returned", "raised"} /\ C12_SameTools(run_id)') =>
                 LET alone == C18_AloneOf(run_id) IN
                 /\ frames'[run_id].raised = alone.raised
                 /\ get_graph_state(runs'[run_id], heap') =
                       get_graph_state(alone.run, alone.heap)]_vars

====
